---- MODULE Spec2Model ----
(***************************************************************************)
(* Model of src/app.py, the "GitHub Contact Finder": one run of main()     *)
(* (token check, token validation, search, per-repository scrape loop,     *)
(* summary and CSV export) and the pure function extract_contacts with its *)
(* two regular expressions.                                                *)
(*                                                                         *)
(* Text is a sequence of one-character strings.  A regular expression is a *)
(* sequence of items [cls, min, max]: a character class with a greedy      *)
(* quantifier, matched by backtracking in the order Python's re tries.     *)
(***************************************************************************)
EXTENDS Integers, Sequences, FiniteSets, TLC

VARIABLES
    pc,            \* position of main(): start, validate, input, loop, finish, done, stopped, crashed
    token,         \* GITHUB_API_TOKEN (app.py:22)
    log,           \* outbound events: the last one before the current step, then the step's own
    validated,     \* whether get_user().login returned (app.py:146)
    name,          \* main's local `name`: what the user typed
    searches,      \* number of search_repositories requests issued in this run
    searched,      \* how the remote answered the search and the totalCount it reported
    repos,         \* main's local `repos`: the list search_repositories returned
    readmes,       \* the remote README bytes of each repository in `repos`
    scraped,       \* names passed to scrape_repository so far, in call order
    all_contacts,  \* main's local accumulator
    contacts,      \* main's local `contacts`: what the last scrape_repository returned
    outcome,       \* how the remote answered get_repo and get_readme in the last scrape
    summary,       \* the displayed summary sets [emails, phones]
    csv_before,    \* the file github_contacts.csv as it was when the run began
    csv_file,      \* the file github_contacts.csv on disk (<<>> = no file)
    written,       \* whether DataFrame.to_csv(filename) ran in this run
    offered,       \* whether the download button was rendered in this run
    ui,            \* the last user-facing message kind
    chunks,        \* extract_contacts harness: the pieces the input text is made of
    emails,        \* extract_contacts harness: returned email list
    phones,        \* extract_contacts harness: returned phone list
    epc            \* extract_contacts harness: "input" or "done"

mainVars == <<pc, token, log, validated, name, searches, searched, repos, readmes, scraped, all_contacts,
              contacts, outcome, summary, csv_before, csv_file, written, offered, ui>>
extractVars == <<chunks, emails, phones, epc>>
vars == <<pc, token, log, validated, name, searches, searched, repos, readmes, scraped, all_contacts,
          contacts, outcome, summary, csv_before, csv_file, written, offered, ui,
          chunks, emails, phones, epc>>

----------------------------------------------------------------------------
(* Bounds of the model *)

\* most repositories the remote search may report (beyond the page cut)
MaxResults == 11
\* longest of the short result lists
MaxShort == 3
\* leading repositories of a result list that may carry contact text
RichSpan == 2
\* pieces an input text of the extract_contacts harness is made of
MaxChunks == 3

----------------------------------------------------------------------------
(* Characters and sequences *)

Digit == {"0", "1", "2", "3", "4", "5", "6", "7", "8", "9"}
Lower == {"a", "b", "c", "d", "e", "f", "g", "h", "i", "j", "k", "l", "m",
          "n", "o", "p", "q", "r", "s", "t", "u", "v", "w", "x", "y", "z"}
Upper == {"A", "B", "C", "D", "E", "F", "G", "H", "I", "J", "K", "L", "M",
          "N", "O", "P", "Q", "R", "S", "T", "U", "V", "W", "X", "Y", "Z"}
Letter == Lower \cup Upper
Space == {" "}

RECURSIVE Flatten(_)
Flatten(ss) == IF ss = <<>> THEN <<>> ELSE Head(ss) \o Flatten(Tail(ss))

Range(s) == {s[k] : k \in 1..Len(s)}

NoDuplicates(s) == \A a, b \in 1..Len(s) : a # b => s[a] # s[b]

\* every enumeration of a finite set as a list: the orders list(set(...)) can give
Orderings(S) ==
    {s \in [1..Cardinality(S) -> S] : \A a, b \in 1..Cardinality(S) : a # b => s[a] # s[b]}

StartsWith(s, p) == Len(s) >= Len(p) /\ SubSeq(s, 1, Len(p)) = p

----------------------------------------------------------------------------
(* The regular expressions (app.py:25-26) and Python's matching of them *)

Item(c, lo, hi) == [cls |-> c, min |-> lo, max |-> hi]
One(c) == Item(c, 1, 1)
Opt(c) == Item(c, 0, 1)

\* a quantifier with no upper limit: max is negative and never counts down to 0
Many(c, lo) == Item(c, lo, -1)

EmailLocal == Letter \cup Digit \cup {".", "_", "%", "+", "-"}
EmailDomain == Letter \cup Digit \cup {".", "-"}

\* [a-zA-Z0-9._%+-]+@[a-zA-Z0-9.-]+\.[a-zA-Z]{2,}
EMAIL_REGEX ==
    << Many(EmailLocal, 1), One({"@"}), Many(EmailDomain, 1), One({"."}), Many(Letter, 2) >>

Separator == {"-", "."} \cup Space

\* \s?(7[0-9]{2})\s?[-.\s]?\(?\d{3}\)?[-.\s]?\d{3,4}: what follows group 1
PhoneRest ==
    << Opt(Space), One({"7"}), Item(Digit, 2, 2), Opt(Space), Opt(Separator),
       Opt({"("}), Item(Digit, 3, 3), Opt({")"}), Opt(Separator), Item(Digit, 3, 4) >>

\* group 1, first alternative: \+44\s?
PhonePlus44 == << One({"+"}), One({"4"}), One({"4"}), Opt(Space) >>
\* group 1, second alternative: 0
PhoneZero == << One({"0"}) >>

NoMatch == << -1 >>

\* number of consecutive characters of cls after position pos, at most hi
RECURSIVE RunLength(_, _, _, _)
RunLength(cls, text, pos, hi) ==
    IF hi = 0 \/ pos >= Len(text) \/ text[pos + 1] \notin cls
    THEN 0
    ELSE 1 + RunLength(cls, text, pos + 1, hi - 1)

\* items k.. of pat against text after position pos: the end positions of the
\* items in the first successful match of the backtracking order, or NoMatch
RECURSIVE MatchFrom(_, _, _, _)
RECURSIVE TryCount(_, _, _, _, _)
MatchFrom(pat, k, text, pos) ==
    IF k > Len(pat)
    THEN <<>>
    ELSE TryCount(pat, k, text, pos, RunLength(pat[k].cls, text, pos, pat[k].max))
TryCount(pat, k, text, pos, n) ==
    IF n < pat[k].min
    THEN NoMatch
    ELSE LET r == MatchFrom(pat, k + 1, text, pos + n)
         IN  IF r # NoMatch THEN <<pos + n>> \o r ELSE TryCount(pat, k, text, pos, n - 1)

\* EMAIL_REGEX at pos: [end, value] of the match, value being the whole match
EmailAt(text, pos) ==
    LET m == MatchFrom(EMAIL_REGEX, 1, text, pos)
    IN  IF m = NoMatch
        THEN [end |-> -1, value |-> <<>>]
        ELSE [end |-> m[Len(m)], value |-> SubSeq(text, pos + 1, m[Len(m)])]

\* PHONE_REGEX at pos: [end, value], value being the tuple (group 1, group 2)
PhoneAt(text, pos) ==
    LET a == MatchFrom(PhonePlus44 \o PhoneRest, 1, text, pos)
        b == MatchFrom(PhoneZero \o PhoneRest, 1, text, pos)
    IN  IF a # NoMatch
        THEN [end |-> a[Len(a)],
              value |-> <<SubSeq(text, pos + 1, a[4]), SubSeq(text, a[5] + 1, a[7])>>]
        ELSE IF b # NoMatch
        THEN [end |-> b[Len(b)],
              value |-> <<SubSeq(text, pos + 1, b[1]), SubSeq(text, b[2] + 1, b[4])>>]
        ELSE [end |-> -1, value |-> <<>>]

\* re.findall: leftmost non-overlapping matches, scanning left to right
RECURSIVE FindEmails(_, _)
FindEmails(text, pos) ==
    IF pos >= Len(text)
    THEN <<>>
    ELSE LET m == EmailAt(text, pos)
         IN  IF m.end = -1
             THEN FindEmails(text, pos + 1)
             ELSE <<m.value>> \o FindEmails(text, m.end)

RECURSIVE FindPhones(_, _)
FindPhones(text, pos) ==
    IF pos >= Len(text)
    THEN <<>>
    ELSE LET m == PhoneAt(text, pos)
         IN  IF m.end = -1
             THEN FindPhones(text, pos + 1)
             ELSE <<m.value>> \o FindPhones(text, m.end)

\* re.sub(r'[\s\-\(\)]', '', s)
StripPunct(s) == SelectSeq(s, LAMBDA c : c \notin (Space \cup {"-", "(", ")"}))

\* app.py:50, the element of the comprehension: the two groups joined and stripped
RawPhone(groups) == StripPunct(groups[1] \o groups[2])

\* app.py:51, the element of the comprehension
NormalisePhone(phone) ==
    IF StartsWith(phone, <<"+", "4", "4">>)
    THEN phone
    ELSE IF StartsWith(phone, <<"0">>)
    THEN <<"+", "4", "4">> \o Tail(phone)
    ELSE phone

\* app.py:50-51: set, list, then the normalising comprehension over the list
PhoneLists(raw) ==
    {[k \in 1..Len(order) |-> NormalisePhone(order[k])] :
        order \in Orderings({RawPhone(raw[k]) : k \in 1..Len(raw)})}

\* app.py:48
EmailLists(found) == Orderings(Range(found))

\* the results extract_contacts(text) can return (the order of a list made from
\* a set is not fixed by the language)
extract_contacts(text) ==
    {[emails |-> e, phones |-> p] :
        e \in EmailLists(FindEmails(text, 0)), p \in PhoneLists(FindPhones(text, 0))}

----------------------------------------------------------------------------
(* The remote service and the user's inputs *)

\* search_results.get_page(0)[:10] (app.py:68)
PageLimit == 10

InvalidByte == "xFF"

\* a description and the bytes of a README that carry contacts
RichDescription == <<"a", "@", "b", ".", "c", "o", " ", "0", "7", "1", "2", " ", "3", "4", "5", " ", "6", "7", "8", "9">>
RichReadme == <<"c", "@">> \o <<InvalidByte>> \o <<"d", ".", "i", "o", " ", "+", "4", "4", "7", "9", "8", "7", "6", "5", "4", "3", "2", "1">>

FullName(k) == <<"owner/repo", k>>
HtmlUrl(k) == <<"https://github.com/owner/repo", k>>

\* the k-th repository the remote reports; kind says which of its texts carry contacts
Hosted(k, kind) ==
    [full_name |-> FullName(k), html_url |-> HtmlUrl(k),
     has_description |-> kind \in {"description", "both"},
     description |-> IF kind \in {"description", "both"} THEN RichDescription ELSE <<>>,
     readme |-> IF kind \in {"readme", "both"} THEN RichReadme ELSE <<>>]

Kinds == {"plain", "description", "readme", "both"}

\* the lengths of the result lists: short ones, and ones the page cut applies to
ResultCounts == (0..MaxShort) \cup (PageLimit..MaxResults)

\* the result lists the remote can report: every repository among the first
\* RichSpan is of any kind, the others are plain
HostedLists ==
    UNION {
        {[k \in 1..n |-> Hosted(k, IF k <= RichSpan THEN kinds[k] ELSE "plain")] :
            kinds \in [1..RichSpan -> Kinds]} :
        n \in ResultCounts}

Tokens == {"", "ghp_token"}
Names == {<<>>, <<" ">>, <<" ", "A", "l", " ">>}
Companies == {<<>>, <<"C", "o">>}

\* str.strip()
RECURSIVE LStrip(_)
LStrip(s) == IF s # <<>> /\ Head(s) \in Space THEN LStrip(Tail(s)) ELSE s
RECURSIVE RStrip(_)
RStrip(s) == IF s # <<>> /\ s[Len(s)] \in Space THEN RStrip(SubSeq(s, 1, Len(s) - 1)) ELSE s
Strip(s) == RStrip(LStrip(s))

\* app.py:160-163
Query(n, company) ==
    <<"\"">> \o Strip(n) \o <<"\"">>
    \o (IF Strip(company) # <<>> THEN <<" ", "\"">> \o Strip(company) \o <<"\"">> ELSE <<>>)
    \o <<" in:readme in:description">>

\* readme.decoded_content.decode("utf-8", errors="ignore")
Decode(bytes) == SelectSeq(bytes, LAMBDA b : b # InvalidByte)

----------------------------------------------------------------------------
(* Outbound events *)

Request(op, idx, q) == [op |-> op, idx |-> idx, q |-> q, secs |-> 0]
Sleep(secs, idx) == [op |-> "sleep", idx |-> idx, q |-> <<>>, secs |-> secs]

ApiOps == {"search_repositories", "get_repo", "get_readme"}
IsRequest(e) == e.op \in ApiOps

\* the event before the step that is about to run
Carry == IF log = <<>> THEN <<>> ELSE <<log[Len(log)]>>

\* a wrapper that calls again after the rate-limit sleep
github_api_call_retrying(op, idx, q, how) ==
    <<Request(op, idx, q)>>
    \o (IF how = "rate403" THEN <<Sleep(60, idx), Request(op, idx, q)>> ELSE <<>>)

\* The decorators of app.py:29-30 delay a call once 5000 were made in an hour
\* and never repeat one that was issued; a run makes at most 21 calls.
\* github_api_call(func, ...) (app.py:29-44) when the remote answers `how`:
\* "ok", "rate403" (GithubException, status 403), "github" (another
\* GithubException) or "error" (any other Exception); the events it issues
github_api_call(op, idx, q, how) ==
    <<Request(op, idx, q)>> \o (IF how = "rate403" THEN <<Sleep(60, idx)>> ELSE <<>>)

Raised(how) ==
    CASE how = "ok" -> "none"
      [] how \in {"rate403", "github"} -> "GithubException"
      [] OTHER -> "Exception"

----------------------------------------------------------------------------
(* search_repositories and scrape_repository *)

CallOutcomes == {"ok", "rate403", "github", "error"}
\* "count_error": totalCount raises; "page_error": get_page(0) raises
SearchOutcomes == CallOutcomes \cup {"count_error", "page_error"}
\* "undecodable": the call returns, decoded_content cannot be decoded (it is None)
ReadmeOutcomes == CallOutcomes \cup {"undecodable"}

\* how one scrape can go: get_readme is only called when get_repo returned
ScrapeOutcomes ==
    {[repo |-> a, readme |-> "none"] : a \in CallOutcomes \ {"ok"}}
    \cup {[repo |-> "ok", readme |-> b] : b \in ReadmeOutcomes}

FirstPage(hosted) == SubSeq(hosted, 1, IF Len(hosted) < PageLimit THEN Len(hosted) ELSE PageLimit)

\* app.py:69-73
RepoDict(h) ==
    [name |-> h.full_name, url |-> h.html_url,
     description |-> IF h.has_description THEN h.description ELSE <<>>]

\* search_repositories(query, github_client) (app.py:54-84): the list returned
\* (empty when the call, totalCount or get_page raises, or nothing was found),
\* the README bytes behind it and the events issued
search_repositories(query, how, hosted) ==
    LET page == FirstPage(hosted)
        some == how = "ok" /\ Len(hosted) > 0
    IN  [repos   |-> IF some THEN [k \in 1..Len(page) |-> RepoDict(page[k])] ELSE <<>>,
         readmes |-> IF some THEN [k \in 1..Len(page) |-> page[k].readme] ELSE <<>>,
         events  |-> github_api_call("search_repositories", 0, query,
                                     IF how \in CallOutcomes THEN how ELSE "ok")]

\* a phone record that also fills the email field
PhoneRecordFillingEmail(repo, phone) ==
    [repo |-> repo.name, url |-> repo.url, email |-> phone, phone |-> phone]

\* app.py:99/108 and app.py:101/110
EmailRecord(repo, email) == [repo |-> repo.name, url |-> repo.url, email |-> email, phone |-> <<>>]
PhoneRecord(repo, phone) == [repo |-> repo.name, url |-> repo.url, email |-> <<>>, phone |-> phone]

\* the two append loops after one extract_contacts call (app.py:97-101, 106-110)
Records(repo, found) ==
    [k \in 1..Len(found.emails) |-> EmailRecord(repo, found.emails[k])]
    \o [k \in 1..Len(found.phones) |-> PhoneRecord(repo, found.phones[k])]

\* extract_contacts over the texts the remote holds, computed once
RemoteTexts == {<<>>, RichDescription, Decode(RichReadme)}
Extracted == [text \in RemoteTexts |-> extract_contacts(text)]

\* the lists of records one text can give for repo
RecordLists(repo, text) == {Records(repo, found) : found \in Extracted[text]}

\* whether the README block of scrape_repository (app.py:94-103) ran to its end
ReadmeRead(readmeHow) == readmeHow = "ok"
\* whether the description block (app.py:105-110) is reached: the inner except
\* clause catches GithubException only
DescriptionReached(repoHow, readmeHow) ==
    repoHow = "ok" /\ Raised(readmeHow) # "Exception"

\* scrape_repository(repo, github_client) (app.py:86-115): the lists it can
\* return and the events it issues
scrape_repository(k, repo, readme, repoHow, readmeHow) ==
    LET events ==
            github_api_call("get_repo", k, <<>>, repoHow)
            \o (IF repoHow = "ok"
                THEN github_api_call("get_readme", k, <<>>,
                                     IF readmeHow = "undecodable" THEN "ok" ELSE readmeHow)
                ELSE <<>>)
        fromReadme ==
            IF repoHow = "ok" /\ ReadmeRead(readmeHow)
            THEN RecordLists(repo, Decode(readme))
            ELSE {<<>>}
        fromDescription ==
            IF DescriptionReached(repoHow, readmeHow)
            THEN RecordLists(repo, repo.description)
            ELSE {<<>>}
    IN  {[contacts |-> a \o b, events |-> events] : a \in fromReadme, b \in fromDescription}

\* rows written last record first
ToCsvReversed(records) ==
    <<<<"repo", "url", "email", "phone">>>>
    \o [k \in 1..Len(records) |->
            LET r == records[Len(records) + 1 - k] IN <<r.repo, r.url, r.email, r.phone>>]

\* DataFrame(contacts).to_csv(index=False): a header line and one line per record
CsvHeader == <<"repo", "url", "email", "phone">>
ToCsv(records) ==
    <<CsvHeader>> \o [k \in 1..Len(records) |-> <<records[k].repo, records[k].url,
                                                   records[k].email, records[k].phone>>]

\* a file left by an earlier run
OldCsv == ToCsv(<<[repo |-> FullName(0), url |-> HtmlUrl(0), email |-> <<"o", "@", "l", ".", "d", "e">>, phone |-> <<>>]>>)

----------------------------------------------------------------------------
(* One run of main() *)

IdleExtract == chunks = <<>> /\ emails = <<>> /\ phones = <<>> /\ epc = "idle"

Init ==
    /\ pc = "start"
    /\ token \in Tokens
    /\ log = <<>>
    /\ validated = FALSE
    /\ name = <<>>
    /\ searches = 0
    /\ searched = [how |-> "none", total |-> 0]
    /\ repos = <<>>
    /\ readmes = <<>>
    /\ scraped = <<>>
    /\ all_contacts = <<>>
    /\ contacts = <<>>
    /\ outcome = [repo |-> "none", readme |-> "none"]
    /\ summary = [emails |-> {}, phones |-> {}]
    /\ csv_before \in {<<>>, OldCsv}
    /\ csv_file = csv_before
    /\ written = FALSE
    /\ offered = FALSE
    /\ ui = "none"
    /\ IdleExtract

\* a check that never finds the token missing
TokenNeverMissing(t) == FALSE

\* `not GITHUB_API_TOKEN` (app.py:138)
TokenMissing(t) == t = ""

\* app.py:138-141
CheckToken ==
    /\ pc = "start"
    /\ pc' = IF TokenMissing(token) THEN "stopped" ELSE "validate"
    /\ ui' = IF TokenMissing(token) THEN "token_not_configured" ELSE ui
    /\ UNCHANGED <<token, log, validated, name, searches, searched, repos, readmes, scraped,
                   all_contacts, contacts, outcome, summary, csv_before, csv_file,
                   written, offered, extractVars>>

\* where main() goes after github_client.get_user().login (app.py:144-150):
\* a GithubException stops the script, any other exception leaves main()
AfterValidation(how) ==
    CASE how = "ok" -> "input"
      [] Raised(how) = "GithubException" -> "stopped"
      [] OTHER -> "crashed"

\* app.py:144-150
ValidateToken ==
    /\ pc = "validate"
    /\ \E how \in {"ok", "github", "error"} :
          /\ pc' = AfterValidation(how)
          /\ validated' = (how = "ok")
          /\ ui' = IF Raised(how) = "GithubException" THEN "token_invalid" ELSE ui
    /\ log' = Carry \o <<Request("get_user", 0, <<>>)>>
    /\ UNCHANGED <<token, name, searches, searched, repos, readmes, scraped, all_contacts,
                   contacts, outcome, summary, csv_before, csv_file, written, offered,
                   extractVars>>

\* app.py:152-155: the button was not pressed, the script ends
NoClick ==
    /\ pc = "input"
    /\ name' \in Names
    /\ pc' = "done"
    /\ UNCHANGED <<token, log, validated, searches, searched, repos, readmes, scraped,
                   all_contacts, contacts, outcome, summary, csv_before, csv_file,
                   written, offered, ui, extractVars>>

\* a check that takes every name, blank ones too
NameNeverBlank(n) == FALSE

\* `not name.strip()` (app.py:156)
NameBlank(n) == Strip(n) = <<>>

\* app.py:155-158
BlankName ==
    /\ pc = "input"
    /\ \E n \in Names : NameBlank(n) /\ name' = n
    /\ ui' = "enter_full_name"
    /\ pc' = "done"
    /\ UNCHANGED <<token, log, validated, searches, searched, repos, readmes, scraped,
                   all_contacts, contacts, outcome, summary, csv_before, csv_file,
                   written, offered, extractVars>>

\* app.py:155-173: the query, the search, and the return when nothing came back
FindContacts ==
    /\ pc = "input"
    /\ \E n \in Names, company \in Companies, how \in SearchOutcomes, hosted \in HostedLists :
          LET r == search_repositories(Query(n, company), how, hosted)
          IN  /\ ~NameBlank(n)
              /\ name' = n
              /\ searched' = [how |-> how, total |-> IF how = "ok" THEN Len(hosted) ELSE 0]
              /\ repos' = r.repos
              /\ readmes' = r.readmes
              /\ log' = Carry \o r.events
              /\ ui' = IF r.repos = <<>> THEN "no_repositories_found" ELSE "found_repositories"
              /\ pc' = IF r.repos = <<>> THEN "done" ELSE "loop"
    /\ searches' = searches + 1
    /\ all_contacts' = <<>>
    /\ UNCHANGED <<token, validated, scraped, contacts, outcome, summary, csv_before,
                   csv_file, written, offered, extractVars>>

\* assignment in place of extend: all_contacts = contacts
ExtendReplacing(all, new) == new

\* all_contacts.extend(contacts) (app.py:184)
Extend(all, new) == all \o new

\* a loop body without its sleep
NoLoopDelay(k) == <<>>

\* time.sleep(1) at the end of the loop body (app.py:187)
LoopDelay(k) == <<Sleep(1, k)>>

\* one iteration of the loop over repos (app.py:175-187)
ScrapeNext ==
    /\ pc = "loop"
    /\ LET k == Len(scraped) + 1
       IN  /\ \E how \in ScrapeOutcomes :
                \E r \in scrape_repository(k, repos[k], readmes[k], how.repo, how.readme) :
                   /\ contacts' = r.contacts
                   /\ all_contacts' = Extend(all_contacts, r.contacts)
                   /\ log' = Carry \o r.events \o LoopDelay(k)
                   /\ outcome' = how
                   /\ ui' = IF r.contacts = <<>> THEN "no_contacts_in_repository"
                                                 ELSE "contacts_listed"
           /\ scraped' = Append(scraped, repos[k].name)
           /\ pc' = IF k = Len(repos) THEN "finish" ELSE "loop"
    /\ UNCHANGED <<token, validated, name, searches, searched, repos, readmes, summary,
                   csv_before, csv_file, written, offered, extractVars>>

\* app.py:191-192, as sets (sorted() only orders the display)
Summary(records) ==
    [emails |-> {records[k].email : k \in {j \in 1..Len(records) : records[j].email # <<>>}},
     phones |-> {records[k].phone : k \in {j \in 1..Len(records) : records[j].phone # <<>>}}]

\* save_to_csv(contacts, filename) (app.py:117-133): the file afterwards,
\* whether it was written and whether the download was offered
save_to_csv(records, file) ==
    IF records # <<>>
    THEN [file |-> ToCsv(records), written |-> TRUE, offered |-> TRUE, ui |-> "saved"]
    ELSE [file |-> file, written |-> FALSE, offered |-> FALSE, ui |-> "no_contacts_to_save"]

\* app.py:189-199
Finish ==
    /\ pc = "finish"
    /\ IF all_contacts # <<>>
       THEN LET r == save_to_csv(all_contacts, csv_file)
            IN  /\ summary' = Summary(all_contacts)
                /\ csv_file' = r.file
                /\ written' = r.written
                /\ offered' = r.offered
                /\ ui' = r.ui
       ELSE /\ ui' = "nothing_found"
            /\ UNCHANGED <<summary, csv_file, written, offered>>
    /\ pc' = "done"
    /\ UNCHANGED <<token, log, validated, name, searches, searched, repos, readmes, scraped,
                   all_contacts, contacts, outcome, csv_before, extractVars>>

Next ==
    \/ CheckToken
    \/ ValidateToken
    \/ NoClick
    \/ BlankName
    \/ FindContacts
    \/ ScrapeNext
    \/ Finish

Spec == Init /\ [][Next]_vars

Halted == pc \in {"done", "stopped", "crashed"}

----------------------------------------------------------------------------
(* extract_contacts on its own: texts made of a few pieces *)

NationalForm == <<"0", "7", "1", "2", "3", "4", "5", "6", "7", "8", "9">>
InternationalForm == <<"+", "4", "4", "7", "1", "2", "3", "4", "5", "6", "7", "8", "9">>
SpacedForm == <<"0", "7", "1", "2", "3", " ", "4", "5", "6", "7", "8", "9">>
HyphenForm == <<"0", "7", "1", "2", "-", "3", "4", "5", "-", "6", "7", "8", "9">>
EmailForm == <<"a", "@", "b", ".", "c", "o">>
WordForm == <<"x">>
BlankForm == <<" ">>

PhoneForms == {NationalForm, InternationalForm, SpacedForm, HyphenForm}
Chunks == PhoneForms \cup {EmailForm, WordForm, BlankForm}

ChunkLists == UNION {[1..n -> Chunks] : n \in 0..MaxChunks}

IdleMain ==
    /\ pc = "idle" /\ token = "" /\ log = <<>> /\ validated = FALSE
    /\ name = <<>> /\ searches = 0 /\ searched = [how |-> "none", total |-> 0]
    /\ repos = <<>> /\ readmes = <<>> /\ scraped = <<>> /\ all_contacts = <<>>
    /\ contacts = <<>> /\ outcome = [repo |-> "none", readme |-> "none"]
    /\ summary = [emails |-> {}, phones |-> {}]
    /\ csv_before = <<>> /\ csv_file = <<>> /\ written = FALSE /\ offered = FALSE
    /\ ui = "none"

ExtractInit ==
    /\ IdleMain
    /\ chunks \in ChunkLists
    /\ emails = <<>> /\ phones = <<>> /\ epc = "input"

\* one call extract_contacts(text) (app.py:46-52)
Extract ==
    /\ epc = "input"
    /\ \E r \in extract_contacts(Flatten(chunks)) :
          /\ emails' = r.emails
          /\ phones' = r.phones
    /\ epc' = "done"
    /\ UNCHANGED <<chunks, mainVars>>

ExtractNext == Extract

ExtractSpec == ExtractInit /\ [][ExtractNext]_vars

----------------------------------------------------------------------------
(* Properties of a run of main() *)

RepoRequests == {"get_repo", "get_readme"}
LogHas(ops) == \E p \in DOMAIN log : log[p].op \in ops
Count(ops, idx) == Cardinality({p \in DOMAIN log : log[p].op \in ops /\ log[p].idx = idx})

IsPrefix(s, t) == Len(s) <= Len(t) /\ SubSeq(t, 1, Len(s)) = s
IsSuffix(s, t) == Len(s) <= Len(t) /\ SubSeq(t, Len(t) - Len(s) + 1, Len(t)) = s

\* C1: with an empty token the run halts at the token check with the
\* "token not configured" message and issues no request at all; and a search
\* or scrape request is only ever issued with a non-empty token after
\* get_user has returned successfully.
C1_TokenGate ==
    /\ token = "" =>
          /\ pc \in {"start", "stopped"}
          /\ pc = "stopped" => ui = "token_not_configured"
          /\ log = <<>>
    /\ (LogHas(ApiOps) \/ searches > 0 \/ scraped # <<>>) => (token # "" /\ validated)

C1_Witness == token = "" /\ pc = "stopped" /\ ui = "token_not_configured"

\* C3 as stated: no two requests issued through github_api_call follow one
\* another without a delay step between them.
C3_DelayBetweenAllRequests ==
    \A p \in 1..(Len(log) - 1) : ~(IsRequest(log[p]) /\ IsRequest(log[p + 1]))

FirstRequestFor(p) ==
    /\ log[p].op \in RepoRequests
    /\ \A q \in 1..(p - 1) : ~(log[q].op \in RepoRequests /\ log[q].idx = log[p].idx)

\* C3 amended: the 1-second delay separates the requests of consecutive
\* repositories: the first request for every repository after the first is
\* directly preceded by the 1-second sleep that ended the previous
\* repository's loop iteration.
C3_DelayBetweenRepositories ==
    \A p \in DOMAIN log :
        (FirstRequestFor(p) /\ log[p].idx >= 2) =>
            (p > 1 /\ log[p - 1] = Sleep(1, log[p].idx - 1))

C3_Witness ==
    /\ Len(log) >= 2
    /\ log[1] = Sleep(1, 1)
    /\ log[2] = Request("get_repo", 2, <<>>)

SourceTexts(k) == {repos[k].description, Decode(readmes[k])}

WellFormedRecord(c) ==
    /\ DOMAIN c = {"repo", "url", "email", "phone"}
    /\ (c.email = <<>>) # (c.phone = <<>>)
    /\ \E k \in DOMAIN repos :
          /\ c.repo = repos[k].name
          /\ c.url = repos[k].url
          /\ \E text \in SourceTexts(k) : \E found \in Extracted[text] :
                \/ c.email # <<>> /\ c.email \in Range(found.emails)
                \/ c.phone # <<>> /\ c.phone \in Range(found.phones)

\* C6: every record of all_contacts has exactly the fields repo, url, email
\* and phone, carries the name and url of a repository of the search result
\* whose description or README yields its datum, and has exactly one of email
\* and phone non-empty.
C6_RecordShape == \A p \in DOMAIN all_contacts : WellFormedRecord(all_contacts[p])

C6_Witness ==
    /\ \E p \in DOMAIN all_contacts : all_contacts[p].email # <<>>
    /\ \E p \in DOMAIN all_contacts : all_contacts[p].phone # <<>>

CsvColumn(file, col) == {file[r][col] : r \in 2..Len(file)} \ {<<>>}

\* C9: when the run has ended, the CSV file was written, and the download
\* offered, exactly if all_contacts is non-empty; a written file holds the
\* header and one row per record of all_contacts in accumulation order, and
\* its non-empty emails and phones are the displayed summary sets; a run that
\* wrote nothing left the file as it was before the run.
C9_CsvExport ==
    Halted =>
        /\ written <=> all_contacts # <<>>
        /\ offered <=> written
        /\ written =>
              /\ Len(csv_file) = Len(all_contacts) + 1
              /\ csv_file[1] = <<"repo", "url", "email", "phone">>
              /\ \A k \in DOMAIN all_contacts :
                    csv_file[k + 1] = <<all_contacts[k].repo, all_contacts[k].url,
                                        all_contacts[k].email, all_contacts[k].phone>>
              /\ CsvColumn(csv_file, 3) = summary.emails
              /\ CsvColumn(csv_file, 4) = summary.phones
        /\ ~written => csv_file = csv_before

C9_Witness ==
    /\ pc = "done"
    /\ written
    /\ csv_before = OldCsv
    /\ Len(all_contacts) >= 4
    /\ all_contacts[1].repo # all_contacts[Len(all_contacts)].repo

\* C10: a get_repo or get_readme request, a scrape, a contact record or a
\* written CSV file only occurs after a search that raised nothing and
\* reported at least one repository, made for a name that is not blank.
C10_ScrapeOnlyAfterSearch ==
    (Strip(name) = <<>> \/ searched.how # "ok" \/ searched.total = 0) =>
        /\ repos = <<>>
        /\ scraped = <<>>
        /\ all_contacts = <<>>
        /\ ~LogHas(RepoRequests)
        /\ ~written
        /\ csv_file = csv_before
        /\ pc \notin {"loop", "finish"}

C10_Witness ==
    /\ pc = "done"
    /\ searched.how \in {"rate403", "page_error"}
    /\ searches = 1
    /\ csv_file = csv_before

Current == Len(scraped)

ScrapeFailed == outcome.repo \notin {"none", "ok"} \/ outcome.readme \notin {"none", "ok"}

\* what repository k contributes when neither of its calls fails
NoFailureContribution(k) ==
    {r.contacts : r \in scrape_repository(k, repos[k], readmes[k], "ok", "ok")}

\* the records of repository k's description alone
DescriptionContribution(k) == RecordLists(repos[k], repos[k].description)

\* scrape_repository has been called once for each repository of a prefix of
\* the list, in list order, and for the whole list once the loop is over
ScrapedInOrder ==
    /\ Len(scraped) <= Len(repos)
    /\ \A k \in DOMAIN scraped : scraped[k] = repos[k].name
    /\ \A a, b \in DOMAIN repos : a # b => repos[a].name # repos[b].name
    /\ (pc = "finish" \/ (pc = "done" /\ repos # <<>>)) => Len(scraped) = Len(repos)

\* C2 as stated: every repository is scraped once in list order, a repository
\* one of whose calls failed contributes no records, and one that did not
\* fail contributes what it contributes when nothing fails.
C2_FailedContributesNothing ==
    /\ ScrapedInOrder
    /\ IsSuffix(contacts, all_contacts)
    /\ outcome.repo # "none" =>
          /\ ScrapeFailed => contacts = <<>>
          /\ ~ScrapeFailed => contacts \in NoFailureContribution(Current)

C2_LastScrape ==
    /\ ScrapedInOrder
    /\ IsSuffix(contacts, all_contacts)
    /\ outcome.repo # "none" =>
          /\ outcome.repo # "ok" => contacts = <<>>
          /\ (outcome.repo = "ok" /\ Raised(outcome.readme) = "GithubException") =>
                contacts \in DescriptionContribution(Current)
          /\ (outcome.repo = "ok" /\ Raised(outcome.readme) = "Exception") =>
                contacts \in {<<>>} \cup DescriptionContribution(Current)
          /\ ~ScrapeFailed => contacts \in NoFailureContribution(Current)

\* C2 amended: every repository is scraped once in list order; a repository
\* whose get_repo failed contributes no records; one whose get_readme failed
\* contributes no README records (exactly its description's records when the
\* failure is a GithubException); one that did not fail contributes what it
\* contributes when nothing fails; and no step removes or changes a record
\* already accumulated.
C2_FailuresIsolated ==
    /\ []C2_LastScrape
    /\ [][IsPrefix(all_contacts, all_contacts') /\ IsPrefix(scraped, scraped')]_vars

C2_Witness ==
    /\ pc = "done"
    /\ Len(scraped) = PageLimit
    /\ outcome.repo = "error"
    /\ \E p \in DOMAIN all_contacts : all_contacts[p].repo = repos[1].name
    /\ \E p \in DOMAIN all_contacts : all_contacts[p].repo = repos[2].name

\* C7: when get_repo returned and fetching or decoding the README failed, in
\* whatever way, the repository yields exactly the records of its description.
C7_DescriptionSurvivesReadmeFailure ==
    (outcome.repo = "ok" /\ outcome.readme # "ok") =>
        contacts \in DescriptionContribution(Current)

\* progress measure of a run: what is left to do
Rank ==
    CASE pc = "start" -> PageLimit + 5
      [] pc = "validate" -> PageLimit + 4
      [] pc = "input" -> PageLimit + 3
      [] pc = "loop" -> 1 + Len(repos) - Len(scraped)
      [] pc = "finish" -> 1
      [] OTHER -> 0

C8_Bounded ==
    /\ searches <= 1
    /\ Count({"search_repositories"}, 0) <= 1
    /\ Len(scraped) <= 10
    /\ NoDuplicates(scraped)
    /\ \A k \in 1..Len(repos) :
          /\ Count({"get_repo"}, k) <= 1
          /\ Count({"get_readme"}, k) <= 1
    /\ Rank >= 0
    /\ Halted \/ ENABLED Next

\* C8: the search is invoked at most once, at most 10 repositories are
\* scraped, each at most once, get_repo and get_readme are each invoked at
\* most once per repository also when the call fails with status 403, and the
\* run terminates: it is never stuck before its end and every step lowers a
\* measure that cannot fall below zero.
C8_NoRetryAndTerminates ==
    /\ []C8_Bounded
    /\ [][Rank' < Rank]_vars

C8_Witness ==
    /\ pc = "done"
    /\ searched.total > 10
    /\ Len(scraped) = 10
    /\ outcome.repo = "rate403"
    /\ log[Len(log) - 1] = Sleep(60, 10)

----------------------------------------------------------------------------
(* Properties of extract_contacts *)

PhoneChunks == {k \in DOMAIN chunks : chunks[k] \in PhoneForms}
EmailChunks == {k \in DOMAIN chunks : chunks[k] = EmailForm}

\* a written number in the form +447xxxxxxxxx: its digits, 0 replaced by +44
FullNumber(written_) ==
    LET digits == SelectSeq(written_, LAMBDA c : c \in Digit)
    IN  IF Head(written_) = "0" THEN <<"+", "4", "4">> \o Tail(digits) ELSE <<"+">> \o digits

\* C4: for a text with one UK mobile number the phone result is exactly that
\* number, all digits, as +447xxxxxxxxx; for a text with no number and no
\* email both results are empty.
C4_FullNumberReturned ==
    epc = "done" =>
        /\ Cardinality(PhoneChunks) = 1 =>
              \A k \in PhoneChunks : phones = <<FullNumber(chunks[k])>>
        /\ (PhoneChunks = {} /\ EmailChunks = {}) => (emails = <<>> /\ phones = <<>>)

\* C5: neither returned list holds the same value twice.
C5_ListsDeduplicated ==
    epc = "done" => (NoDuplicates(emails) /\ NoDuplicates(phones))

====
